---- MODULE Spec2Model ----
(***************************************************************************)
(* simple-error: the format-string interpolation parser (parse_internal)   *)
(* and the Display match-arm generator (Interpolate::to_tokens).           *)
(*                                                                         *)
(* A Rust String is modelled as a sequence of one-character strings, so    *)
(* that "{a}" is <<"{", "a", "}">>.  An Option<T> is modelled as a         *)
(* sequence of length at most one: None is <<>>, Some(x) is <<x>>.         *)
(***************************************************************************)
EXTENDS Integers, Sequences, FiniteSets, TLC

VARIABLES
    fmt_text,           \* the format text handed to parse_internal
    chars,              \* the part of fmt_text the `chars` iterator has not yielded yet
    fmt_string,         \* the rewritten format string built so far
    used_identifiers,   \* BTreeMap<String, Option<String>>: key -> trait
    index_for_unnamed,  \* the counter of implicit positional placeholders
    field,              \* name buffer of the placeholder being scanned
    traits,             \* Option<String>: trait buffer of the placeholder being scanned
    scanning,           \* TRUE while control is inside the inner `while let` (lines 74-122)
    variant,            \* the syn::Variant the Interpolate was parsed for
    arm                 \* the match arm emitted by to_tokens

vars == <<fmt_text, chars, fmt_string, used_identifiers, index_for_unnamed,
          field, traits, scanning, variant, arm>>

-----------------------------------------------------------------------------
(* Bounds of the model.                                                    *)

MaxPieces == 4
MaxNumPieces == 4
MaxFields == 2

-----------------------------------------------------------------------------
(* Strings, options and integer formatting / parsing.                      *)

None == <<>>
Some(x) == <<x>>

Digits == <<"0", "1", "2", "3", "4", "5", "6", "7", "8", "9">>

IsDigit(c) == \E d \in 1..10 : Digits[d] = c

DigitVal(c) == (CHOOSE d \in 1..10 : Digits[d] = c) - 1

\* format!("{}", n) for a non-negative integer n
RECURSIVE ToDecimal(_)
ToDecimal(n) ==
    IF n < 10 THEN <<Digits[n + 1]>>
    ELSE ToDecimal(n \div 10) \o <<Digits[(n % 10) + 1]>>

\* format!("__{}", s)
Prefixed(s) == <<"_", "_">> \o s

\* largest values of the integer types the field is parsed as, as decimal text
\* (usize of a 64-bit host); kept as text so that no model integer overflows
U8Max == <<"2", "5", "5">>
UsizeMax == <<"1", "8", "4", "4", "6", "7", "4", "4", "0", "7",
              "3", "7", "0", "9", "5", "5", "1", "6", "1", "5">>

RECURSIVE StripZeros(_)
StripZeros(s) ==
    IF Len(s) > 1 /\ s[1] = "0" THEN StripZeros(Tail(s)) ELSE s

\* a <= b for two digit strings of the same length
RECURSIVE DigitsLeq(_, _)
DigitsLeq(a, b) ==
    IF a = <<>> THEN TRUE
    ELSE IF DigitVal(a[1]) < DigitVal(b[1]) THEN TRUE
    ELSE IF DigitVal(a[1]) > DigitVal(b[1]) THEN FALSE
    ELSE DigitsLeq(Tail(a), Tail(b))

\* str::parse::<uN>().is_ok(): an optional '+', then one or more ASCII digits
\* whose value does not exceed the type's maximum
ParseIsOk(s, max) ==
    LET d == IF Len(s) > 0 /\ s[1] = "+" THEN Tail(s) ELSE s
        z == StripZeros(d)
    IN  /\ Len(d) > 0
        /\ \A i \in 1..Len(d) : IsDigit(d[i])
        /\ \/ Len(z) < Len(max)
           \/ Len(z) = Len(max) /\ DigitsLeq(z, max)

-----------------------------------------------------------------------------
(* parse_internal: the pieces of one loop iteration.                       *)

StartIndex == -1

\* the escape emitted as one brace
SingleBrace == <<"{">>

EscapeText == <<"{", "{">>

\* Normalize, with an explicit index advancing the implicit counter as well
NormalizeCountingExplicit(f, idx, max) ==
    LET idx1 == IF f = <<>> \/ ParseIsOk(f, max) THEN idx + 1 ELSE idx
        f1 == IF f = <<>> THEN f \o Prefixed(ToDecimal(idx + 1)) ELSE f
        f2 == IF ParseIsOk(f1, max) THEN Prefixed(f1) ELSE f1
    IN  [field |-> f2, index |-> idx1]

\* lines 78-85 and 102-109: an empty name takes the next implicit index, a
\* name that parses as an integer of the given type takes the "__" prefix
Normalize(f, idx, max) ==
    LET idx1 == IF f = <<>> THEN idx + 1 ELSE idx
        f1 == IF f = <<>> THEN f \o Prefixed(ToDecimal(idx + 1)) ELSE f
        f2 == IF ParseIsOk(f1, max) THEN Prefixed(f1) ELSE f1
    IN  [field |-> f2, index |-> idx1]

\* lines 88-95: the characters peeked and consumed before the first '}'
RECURSIVE TraitText(_)
TraitText(rest) ==
    IF rest = <<>> \/ rest[1] = "}" THEN <<>>
    ELSE <<rest[1]>> \o TraitText(Tail(rest))

\* traits.get_or_insert("".to_string()).push(c), for every character of txt
PushTraits(t, txt) ==
    IF txt = <<>> THEN t
    ELSE Some((IF t = None THEN <<>> ELSE t[1]) \o txt)

\* Placeholder, with the trait left out of the emitted text
PlaceholderWithoutTrait(f, t) == <<"{">> \o f \o <<"}">>

\* lines 111-115: format!("{{{}{}}}", field, traits.map(|c| format!(":{c}")))
Placeholder(f, t) ==
    <<"{">> \o f \o (IF t = None THEN <<>> ELSE <<":">> \o t[1]) \o <<"}">>

\* Insert, keeping the value of a key that is already present
InsertIfAbsent(m, k, v) ==
    [x \in (DOMAIN m) \cup {k} |-> IF x \in DOMAIN m THEN m[x] ELSE v]

\* BTreeMap::insert
Insert(m, k, v) ==
    [x \in (DOMAIN m) \cup {k} |-> IF x = k THEN v ELSE m[x]]

EmptyMap == [x \in {} |-> None]

\* the local state of parse_internal as a record
InitScan(text) ==
    [chars |-> text, fmt_string |-> <<>>, used_identifiers |-> EmptyMap,
     index_for_unnamed |-> StartIndex, field |-> <<>>, traits |-> None,
     scanning |-> FALSE]

\* which branch the next iteration takes
AtLiteral(s) == ~s.scanning /\ s.chars # <<>> /\ s.chars[1] # "{"
AtEscape(s) ==
    /\ ~s.scanning /\ s.chars # <<>> /\ s.chars[1] = "{"
    /\ Len(s.chars) >= 2 /\ s.chars[2] = "{"
AtOpen(s) ==
    /\ ~s.scanning /\ s.chars # <<>> /\ s.chars[1] = "{"
    /\ ~(Len(s.chars) >= 2 /\ s.chars[2] = "{")
AtColon(s) == s.scanning /\ s.chars # <<>> /\ s.chars[1] = ":"
AtClose(s) == s.scanning /\ s.chars # <<>> /\ s.chars[1] = "}"
AtFieldChar(s) ==
    s.scanning /\ s.chars # <<>> /\ s.chars[1] # ":" /\ s.chars[1] # "}"

\* OnLiteral, with a "}}" pair collapsed into one '}'
OnLiteralClosingPair(s) ==
    IF s.chars[1] = "}" /\ Len(s.chars) >= 2 /\ s.chars[2] = "}"
    THEN [s EXCEPT !.chars = Tail(Tail(@)), !.fmt_string = @ \o <<"}">>]
    ELSE [s EXCEPT !.chars = Tail(@), !.fmt_string = @ \o <<s.chars[1]>>]

\* lines 60-63
OnLiteral(s) ==
    [s EXCEPT !.chars = Tail(@), !.fmt_string = @ \o <<s.chars[1]>>]

\* lines 66-70
OnEscape(s) ==
    [s EXCEPT !.chars = Tail(Tail(@)), !.fmt_string = @ \o EscapeText]

\* lines 72-74
OnOpen(s) ==
    [s EXCEPT !.chars = Tail(@), !.field = <<>>, !.traits = None,
              !.scanning = TRUE]

\* lines 75-98
OnColon(s) ==
    LET n == Normalize(s.field, s.index_for_unnamed, UsizeMax)
        rest == Tail(s.chars)
        txt == TraitText(rest)
    IN  [s EXCEPT !.chars = SubSeq(rest, Len(txt) + 1, Len(rest)),
                  !.field = n.field,
                  !.index_for_unnamed = n.index,
                  !.traits = PushTraits(@, txt)]

\* OnClose, recording in the catalogue only the placeholders that have a trait
OnCloseRecordingTraitsOnly(s) ==
    LET n == Normalize(s.field, s.index_for_unnamed, U8Max)
    IN  [s EXCEPT !.chars = Tail(@),
                  !.field = n.field,
                  !.index_for_unnamed = n.index,
                  !.fmt_string = @ \o Placeholder(n.field, s.traits),
                  !.used_identifiers =
                      IF s.traits = None THEN @
                      ELSE Insert(@, n.field, s.traits),
                  !.scanning = FALSE]

\* lines 100-119
OnClose(s) ==
    LET n == Normalize(s.field, s.index_for_unnamed, U8Max)
    IN  [s EXCEPT !.chars = Tail(@),
                  !.field = n.field,
                  !.index_for_unnamed = n.index,
                  !.fmt_string = @ \o Placeholder(n.field, s.traits),
                  !.used_identifiers = Insert(@, n.field, s.traits),
                  !.scanning = FALSE]

\* OnFieldChar, with the character also copied to the output
OnFieldCharEchoed(s) ==
    [s EXCEPT !.chars = Tail(@), !.field = @ \o <<s.chars[1]>>,
              !.fmt_string = @ \o <<s.chars[1]>>]

\* line 121
OnFieldChar(s) ==
    [s EXCEPT !.chars = Tail(@), !.field = @ \o <<s.chars[1]>>]

\* one iteration of whichever loop is running
Step(s) ==
    IF AtLiteral(s) THEN OnLiteral(s)
    ELSE IF AtEscape(s) THEN OnEscape(s)
    ELSE IF AtOpen(s) THEN OnOpen(s)
    ELSE IF AtColon(s) THEN OnColon(s)
    ELSE IF AtClose(s) THEN OnClose(s)
    ELSE OnFieldChar(s)

RECURSIVE Run(_)
Run(s) == IF s.chars = <<>> THEN s ELSE Run(Step(s))

\* parse_internal as a function: the returned pair
parse_internal(text) ==
    LET s == Run(InitScan(text)) IN <<s.fmt_string, s.used_identifiers>>

-----------------------------------------------------------------------------
(* Interpolate::to_tokens.                                                 *)

CharCode(c) ==
    IF IsDigit(c) THEN 48 + DigitVal(c)
    ELSE CASE c = "+" -> 43
           [] c = ":" -> 58
           [] c = "_" -> 95
           [] c = "a" -> 97
           [] c = "b" -> 98
           [] c = "{" -> 123
           [] c = "}" -> 125

\* Ord for String: byte-wise lexicographic
RECURSIVE StrLeq(_, _)
StrLeq(a, b) ==
    IF a = <<>> THEN TRUE
    ELSE IF b = <<>> THEN FALSE
    ELSE IF CharCode(a[1]) < CharCode(b[1]) THEN TRUE
    ELSE IF CharCode(a[1]) > CharCode(b[1]) THEN FALSE
    ELSE StrLeq(Tail(a), Tail(b))

\* BTreeMap::iter(): the keys in ascending order
RECURSIVE SortedKeys(_)
SortedKeys(S) ==
    IF S = {} THEN <<>>
    ELSE LET min == CHOOSE k \in S : \A o \in S : StrLeq(k, o)
         IN  <<min>> \o SortedKeys(S \ {min})

\* Ident::new accepts only identifiers
IsIdent(s) ==
    /\ s # <<>>
    /\ s[1] \in {"_", "a", "b"}
    /\ \A i \in 1..Len(s) : s[i] \in {"_", "a", "b"} \/ IsDigit(s[i])

UnitVariant == [kind |-> "Unit", fields |-> <<>>]
UnnamedVariant(n) == [kind |-> "Unnamed", fields |-> [i \in 1..n |-> None]]
NamedVariant(names) ==
    [kind |-> "Named", fields |-> [i \in 1..Len(names) |-> Some(names[i])]]
NoVariant == [kind |-> "None", fields |-> <<>>]

Variants ==
    {UnitVariant, NamedVariant(<< <<"a">> >>)}
        \cup {UnnamedVariant(n) : n \in 0..MaxFields}

NoArm == [kind |-> "none"]
PanicArm == [kind |-> "panic"]

\* lines 174-187
build_ident_assignment(ident, used_fields) ==
    IF ident \notin DOMAIN used_fields THEN None
    ELSE Some([name |-> Prefixed(ident), value |-> Prefixed(ident)])

\* flat_map over Option values
RECURSIVE FlatMap(_)
FlatMap(opts) ==
    IF opts = <<>> THEN <<>> ELSE Head(opts) \o FlatMap(Tail(opts))

\* lines 130-169: the arm's pattern is the sequence of identifiers it binds, in
\* order; `rest` is the trailing `..`; args are the name = value arguments
to_tokens(v, text, used) ==
    CASE v.kind = "Unit" ->
            [kind |-> "Unit", pattern |-> <<>>, rest |-> FALSE,
             text |-> text, args |-> <<>>]
      [] v.kind = "Unnamed" ->
            IF \E k \in DOMAIN used : ~IsIdent(k) THEN PanicArm
            ELSE [kind |-> "Unnamed",
                  pattern |-> SortedKeys(DOMAIN used),
                  rest |-> TRUE,
                  text |-> text,
                  args |-> FlatMap([i \in 1..Len(v.fields) |->
                      IF v.fields[i] = None THEN None
                      ELSE build_ident_assignment(v.fields[i][1], used)])]
      [] v.kind = "Named" ->
            [kind |-> "Named", pattern |-> FlatMap(v.fields), rest |-> FALSE,
             text |-> text, args |-> <<>>]

-----------------------------------------------------------------------------
(* Inputs.                                                                 *)

RECURSIVE Flatten(_)
Flatten(ps) == IF ps = <<>> THEN <<>> ELSE Head(ps) \o Flatten(Tail(ps))

\* templates are made of up to MaxPieces of these: every character the scan
\* tells apart, and whole placeholders so that several fit in one template
Pieces ==
    { <<"a">>, <<"1">>, <<":">>, <<"}">>, <<"{">>,
      <<"{", "}">>, <<"{", ":", "b", "}">>, <<"{", "1", ":", "a", "}">>,
      <<"{", "a", ":", "b", "}">> }

\* the characters integer parsing tells apart: a sign, a number above u8::MAX
NumPieces ==
    { <<"a">>, <<"1">>, <<":">>, <<"}">>, <<"{">>, <<"+">>,
      <<"9", "9", "9">> }

Templates(pieces, n) ==
    UNION { { Flatten(ps) : ps \in [1..k -> pieces] } : k \in 0..n }

-----------------------------------------------------------------------------
(* The state machine.                                                      *)

Scan ==
    [chars |-> chars, fmt_string |-> fmt_string,
     used_identifiers |-> used_identifiers,
     index_for_unnamed |-> index_for_unnamed, field |-> field,
     traits |-> traits, scanning |-> scanning]

Becomes(s) ==
    /\ chars' = s.chars
    /\ fmt_string' = s.fmt_string
    /\ used_identifiers' = s.used_identifiers
    /\ index_for_unnamed' = s.index_for_unnamed
    /\ field' = s.field
    /\ traits' = s.traits
    /\ scanning' = s.scanning
    /\ UNCHANGED <<fmt_text, variant, arm>>

Start(text, v) ==
    /\ fmt_text = text
    /\ chars = text
    /\ fmt_string = <<>>
    /\ used_identifiers = EmptyMap
    /\ index_for_unnamed = StartIndex
    /\ field = <<>>
    /\ traits = None
    /\ scanning = FALSE
    /\ variant = v
    /\ arm = NoArm

\* parse_internal called on its own, as the unit tests do
Init == \E text \in Templates(Pieces, MaxPieces) : Start(text, NoVariant)

\* Interpolate::parse called by the derive macro for a variant
InitDerive ==
    \E text \in Templates(NumPieces, MaxNumPieces), v \in Variants :
        Start(text, v)

Literal == AtLiteral(Scan) /\ Becomes(OnLiteral(Scan))
Escape == AtEscape(Scan) /\ Becomes(OnEscape(Scan))
Open == AtOpen(Scan) /\ Becomes(OnOpen(Scan))
Colon == AtColon(Scan) /\ Becomes(OnColon(Scan))
Close == AtClose(Scan) /\ Becomes(OnClose(Scan))
FieldChar == AtFieldChar(Scan) /\ Becomes(OnFieldChar(Scan))

\* the iterator is exhausted: both loops end and parse_internal returns
Done == chars = <<>>

ToTokens ==
    /\ Done
    /\ variant # NoVariant
    /\ arm = NoArm
    /\ arm' = to_tokens(variant, fmt_string, used_identifiers)
    /\ UNCHANGED <<fmt_text, chars, fmt_string, used_identifiers,
                   index_for_unnamed, field, traits, scanning, variant>>

Next == Literal \/ Escape \/ Open \/ Colon \/ Close \/ FieldChar

NextDerive == Literal \/ Escape \/ Open \/ Colon \/ Close \/ FieldChar \/ ToTokens

Spec == Init /\ [][Next]_vars

SpecDerive == InitDerive /\ [][NextDerive]_vars

-----------------------------------------------------------------------------
(* Reading a template: the placeholders of a text, independently of the    *)
(* scan above.  A placeholder starts at a '{' that is not part of a "{{"   *)
(* pair and ends at the first '}' after it; its name is the text before    *)
(* the first ':' (or before the '}'), its trait the text after that ':'.   *)

FirstIndex(s, c) ==
    IF \E i \in 1..Len(s) : s[i] = c
    THEN CHOOSE i \in 1..Len(s) : s[i] = c /\ \A j \in 1..(i - 1) : s[j] # c
    ELSE 0

RECURSIVE Placeholders(_)
Placeholders(t) ==
    IF t = <<>> THEN <<>>
    ELSE IF t[1] # "{" THEN Placeholders(Tail(t))
    ELSE IF Len(t) >= 2 /\ t[2] = "{" THEN Placeholders(SubSeq(t, 3, Len(t)))
    ELSE LET body == Tail(t)
             close == FirstIndex(body, "}")
             inner == SubSeq(body, 1, close - 1)
             colon == FirstIndex(inner, ":")
         IN  IF close = 0 THEN <<>>
             ELSE << [name |-> IF colon = 0 THEN inner
                               ELSE SubSeq(inner, 1, colon - 1),
                      colon |-> colon # 0,
                      trait |-> IF colon = 0 THEN <<>>
                                ELSE SubSeq(inner, colon + 1, Len(inner))] >>
                  \o Placeholders(SubSeq(body, close + 1, Len(body)))

\* TRUE when the text holds a '{' that opens a placeholder, closed or not
RECURSIVE HasOpen(_)
HasOpen(t) ==
    IF t = <<>> THEN FALSE
    ELSE IF t[1] # "{" THEN HasOpen(Tail(t))
    ELSE IF Len(t) >= 2 /\ t[2] = "{" THEN HasOpen(SubSeq(t, 3, Len(t)))
    ELSE TRUE

\* index in the text of the '{' of the placeholder that no '}' closes, or 0
RECURSIVE UnterminatedFrom(_, _)
UnterminatedFrom(t, off) ==
    IF t = <<>> THEN 0
    ELSE IF t[1] # "{" THEN UnterminatedFrom(Tail(t), off + 1)
    ELSE IF Len(t) >= 2 /\ t[2] = "{"
         THEN UnterminatedFrom(SubSeq(t, 3, Len(t)), off + 2)
    ELSE LET close == FirstIndex(Tail(t), "}")
         IN  IF close = 0 THEN off + 1
             ELSE UnterminatedFrom(SubSeq(t, close + 2, Len(t)), off + close + 1)

UnterminatedAt(t) == UnterminatedFrom(t, 0)

AllDigits(s) == s # <<>> /\ \A i \in 1..Len(s) : IsDigit(s[i])

\* the text the iterator has yielded so far
Consumed == SubSeq(fmt_text, 1, Len(fmt_text) - Len(chars))

InPh == Placeholders(Consumed)
OutPh == Placeholders(fmt_string)

ImplicitBefore(ps, i) == Cardinality({j \in 1..(i - 1) : ps[j].name = <<>>})

\* the annotation a placeholder carries: the non-empty text after its ':'
Annotation(p) == IF p.colon /\ p.trait # <<>> THEN Some(p.trait) ELSE None

Keys(ps) == {ps[i].name : i \in 1..Len(ps)}

LastWithKey(ps, k) ==
    CHOOSE i \in 1..Len(ps) :
        ps[i].name = k /\ \A j \in (i + 1)..Len(ps) : ps[j].name # k

-----------------------------------------------------------------------------------------------------------------------------------------------------
(* Properties.  In each, ins are the placeholders of the text read so far  *)
(* and outs the placeholders of the rewritten text.                        *)

\* C1: the k-th placeholder without a name (k = 0, 1, ...; `{}` or `{:trait}`)
\* is rewritten with key __k, and the counter counts those placeholders only:
\* explicit indices, named placeholders and escapes neither advance nor read it.
ImplicitIndexCounts ==
    LET ins == InPh
        outs == OutPh
    IN  /\ Len(outs) = Len(ins)
        /\ \A i \in 1..Len(ins) :
              ins[i].name = <<>> =>
                  outs[i].name = Prefixed(ToDecimal(ImplicitBefore(ins, i)))
        /\ ~scanning =>
              index_for_unnamed = StartIndex + ImplicitBefore(ins, Len(ins) + 1)

ImplicitAroundExplicit ==
    LET ins == InPh
        outs == OutPh
    IN  /\ Done
        /\ \E i, j, k \in 1..Len(ins) :
              /\ i < j /\ j < k
              /\ ins[i].name = <<>> /\ ~ins[i].colon
              /\ AllDigits(ins[j].name)
              /\ ins[k].name = <<>> /\ ins[k].colon
              /\ outs[k].name = <<"_", "_", "1">>

\* C2: a placeholder whose name is a digits-only sequence N is rewritten with
\* key __N, with or without a trait, so no bare numeric name is left.
DigitsOnlyPrefixed ==
    LET ins == InPh
        outs == OutPh
    IN  \A i \in 1..Len(ins) :
            AllDigits(ins[i].name) =>
                /\ i <= Len(outs)
                /\ outs[i].name = Prefixed(ins[i].name)

\* C3 (as stated): a placeholder with a ':' is emitted as {key:text} with the
\* text after the first ':' unchanged and the catalogue maps the key to that
\* text; a placeholder without ':' is emitted as {key} with no catalogue value.
TraitVerbatim ==
    LET ins == InPh
        outs == OutPh
    IN  /\ Len(outs) = Len(ins)
        /\ \A i \in 1..Len(ins) :
              /\ outs[i].colon = ins[i].colon
              /\ outs[i].trait = ins[i].trait
              /\ i = Len(ins) =>
                    /\ outs[i].name \in DOMAIN used_identifiers
                    /\ used_identifiers[outs[i].name] =
                          (IF ins[i].colon THEN Some(ins[i].trait) ELSE None)

\* C3 (amended): a placeholder with non-empty text after its first ':' is
\* emitted as {key:text} with the text unchanged and the catalogue maps the key
\* to that text when the placeholder is emitted; a placeholder without ':', or
\* with nothing between the ':' and the '}', is emitted as {key} and its
\* catalogue value is absent.
TraitVerbatimWhenNonEmpty ==
    LET ins == InPh
        outs == OutPh
    IN  /\ Len(outs) = Len(ins)
        /\ \A i \in 1..Len(ins) :
              /\ outs[i].colon = (Annotation(ins[i]) # None)
              /\ outs[i].trait = ins[i].trait
              /\ i = Len(ins) =>
                    /\ outs[i].name \in DOMAIN used_identifiers
                    /\ used_identifiers[outs[i].name] = Annotation(ins[i])

TraitAndEmptyTraitSeen ==
    LET ins == InPh
    IN  /\ Done
        /\ \E i, j \in 1..Len(ins) :
              /\ ins[i].colon /\ ins[i].trait = <<>>
              /\ ins[j].colon /\ ins[j].trait # <<>>

\* C4: the catalogue has one entry per distinct key emitted, and its value is
\* the annotation of the last placeholder with that key (absent when that one
\* carries none): earlier annotations are overwritten.
LastWriteWins ==
    LET ins == InPh
        outs == OutPh
    IN  Len(outs) = Len(ins) =>
            /\ DOMAIN used_identifiers = Keys(outs)
            /\ \A k \in DOMAIN used_identifiers :
                  used_identifiers[k] = Annotation(ins[LastWithKey(outs, k)])

KeyOverwritten ==
    LET ins == InPh
        outs == OutPh
    IN  /\ Done
        /\ \E i, j \in 1..Len(outs) :
              /\ i < j
              /\ outs[i].name = outs[j].name
              /\ ins[i].name # ins[j].name
              /\ Annotation(ins[i]) # None
              /\ Annotation(ins[j]) # None
              /\ Annotation(ins[j]) # Annotation(ins[i])
              /\ used_identifiers[outs[j].name] = Annotation(ins[j])

\* C5: a placeholder whose name is non-empty and not a digits-only sequence
\* keeps that name verbatim in the rewritten text and as its catalogue key.
NamedKeptVerbatim ==
    LET ins == InPh
        outs == OutPh
    IN  \A i \in 1..Len(ins) :
            (ins[i].name # <<>> /\ ~AllDigits(ins[i].name)) =>
                /\ i <= Len(outs)
                /\ outs[i].name = ins[i].name
                /\ ins[i].name \in DOMAIN used_identifiers

\* C6: in the arm generated for a variant with unnamed fields, the key __i is
\* bound to the field at position i (the pattern's j-th identifier binds the
\* field at position j - 1).
PositionalKeyBindsItsField ==
    arm.kind = "Unnamed" =>
        \A j \in 1..Len(arm.pattern) :
            \A i \in 0..(Len(variant.fields) - 1) :
                arm.pattern[j] = Prefixed(ToDecimal(i)) => j - 1 = i

\* C7: parsing the rewritten text again returns the same text and catalogue.
Idempotent ==
    Done => parse_internal(fmt_string) = <<fmt_string, used_identifiers>>

RewrittenAndReparsed ==
    LET outs == OutPh
    IN  /\ Done
        /\ fmt_string # fmt_text
        /\ Len(outs) >= 2
        /\ \E i \in 1..Len(outs) : outs[i].colon
        /\ UnterminatedAt(fmt_text) # 0

\* C8: when the input ends inside an open placeholder, the result is the
\* rewriting of the text before that '{': the '{' and what follows are dropped
\* and the catalogue has entries for the terminated placeholders only.
UnterminatedDropped ==
    Done =>
        /\ scanning <=> UnterminatedAt(fmt_text) # 0
        /\ scanning =>
              LET before == SubSeq(fmt_text, 1, UnterminatedAt(fmt_text) - 1)
                  outs == OutPh
              IN  /\ <<fmt_string, used_identifiers>> = parse_internal(before)
                  /\ Len(outs) = Len(Placeholders(before))
                  /\ DOMAIN used_identifiers = Keys(outs)

EndsInsideTrait ==
    /\ Done /\ scanning
    /\ traits # None
    /\ used_identifiers # EmptyMap
    /\ UnterminatedAt(fmt_text) > 1

\* C9: a template without placeholders (its only braces are "{{" pairs and '}'
\* outside a placeholder) is returned unchanged, with an empty catalogue.
NoPlaceholderUnchanged ==
    ~HasOpen(Consumed) =>
        /\ fmt_string = Consumed
        /\ used_identifiers = EmptyMap

EscapesOnly ==
    /\ Done
    /\ ~HasOpen(fmt_text)
    /\ \E i \in 1..(Len(fmt_text) - 1) : fmt_text[i] = "{" /\ fmt_text[i + 1] = "{"
    /\ \E i \in 1..(Len(fmt_text) - 1) : fmt_text[i] = "}" /\ fmt_text[i + 1] = "}"

\* C10: at every step of the scan the catalogue's keys are exactly the keys of
\* the placeholders emitted into the rewritten text so far.
CatalogueKeysAreEmittedKeys == DOMAIN used_identifiers = Keys(OutPh)

MidScanWithCatalogue ==
    /\ scanning
    /\ field # <<>>
    /\ Cardinality(DOMAIN used_identifiers) >= 2

====
